---- MODULE Spec2Model ----
(***************************************************************************)
(* Pairing-based accumulator of crypto-accumulator (src/src/*.rs).         *)
(*                                                                         *)
(* The three groups G1, G2, GT of BLS12-381 are cyclic of the same prime   *)
(* order r, and Fr is the field of integers modulo r.  A point of G1 (G2,  *)
(* GT) is represented by its discrete logarithm to the base g1 (g2,        *)
(* e(g1,g2)): point addition is addition modulo r, scalar multiplication   *)
(* is multiplication modulo r, and the pairing e(a*g1, b*g2) is a*b.  The  *)
(* model keeps this structure and scales the prime r down to P.            *)
(***************************************************************************)
EXTENDS Integers, Sequences, FiniteSets, TLC

VARIABLES sk, acc, hist, art, pc, nif

vars == <<sk, acc, hist, art, pc, nif>>

(* ------------------------------ bounds -------------------------------- *)

\* Index of the field order in Primes.
PrimeIdx == 1

\* Largest number of add calls on one accumulator.
MaxAdds == 2

\* Number of callers that share one accumulator handle.
NumCallers == 2

Primes == <<3, 5, 7, 11, 13>>

(* --------------------------- field and groups ------------------------- *)

\* Order r of Fr, G1, G2 and GT (keys.rs, comment on SecretKey::alpha).
P == Primes[PrimeIdx]

Fr == 0 .. (P - 1)

FrAdd(a, b) == (a + b) % P

FrMul(a, b) == (a * b) % P

FrNeg(a) == (P - a) % P

\* Field::inverse: None for zero, Some(1/s) otherwise.
None == [some |-> FALSE]

Some(v) == [some |-> TRUE, val |-> v]

Inverse(s) ==
    IF s = 0 THEN None
    ELSE Some(CHOOSE i \in Fr : FrMul(s, i) = 1)

\* G1::generator(), G2::generator()
G1Generator == 1

G2Generator == 1

\* point + point, -point, point * scalar (same in G1 and G2)
PointAdd(p, q) == FrAdd(p, q)

PointNeg(p) == FrNeg(p)

PointMul(p, s) == FrMul(p, s)

\* Bls12_381::pairing(p, q) and the addition of the target group
Pairing(p, q) == FrMul(p, q)

GtAdd(a, b) == FrAdd(a, b)

(* -------------------------------- keys -------------------------------- *)

\* SecretKey::to_public_key
ToPublicKey(alpha) ==
    [g2 |-> G2Generator, alpha |-> PointMul(G2Generator, alpha)]

(* ----------------------------- accumulator ---------------------------- *)

\* Element { value: G1::generator() * x, x }  (main.rs, the doctests)
Element(x) == [value |-> PointMul(G1Generator, x), x |-> x]

\* Mutant of Accumulator::new: starts from the identity of G1
AccumulatorNew_Identity == PointMul(G1Generator, 0)

\* Accumulator::new
AccumulatorNew == G1Generator

\* Mutant of Accumulator::add: the accumulator value is not scaled by alpha
AccumulatorAdd_NoScale(a, alpha, elem) == PointAdd(elem.value, a)

\* Mutant of Accumulator::add: the element is added before the scaling
AccumulatorAdd_ScaleSum(a, alpha, elem) ==
    PointMul(PointAdd(elem.value, a), alpha)

\* Accumulator::add, the new value of self.value
AccumulatorAdd(a, alpha, elem) ==
    LET alpha_point == PointMul(a, alpha)
    IN  PointAdd(elem.value, alpha_point)

(* ------------------------------ witnesses ----------------------------- *)

\* Mutant of MembershipWitness::generate: a zero sum is silently replaced by
\* a zero inverse instead of aborting
MembershipWitnessGenerate_ZeroInverse(a, alpha, elem) ==
    LET sum == FrAdd(elem.x, alpha)
        inv == Inverse(sum)
    IN  Some(PointMul(a, IF inv.some THEN inv.val ELSE 0))

\* MembershipWitness::generate; None stands for the panic of expect()
MembershipWitnessGenerate(a, alpha, elem) ==
    LET sum == FrAdd(elem.x, alpha)
        inv == Inverse(sum)
    IN  IF inv.some THEN Some(PointMul(a, inv.val)) ELSE None

\* Mutant of MembershipWitness::verify: the witness is paired with
\* g2^alpha * g2^x instead of g2^alpha, and the element pairing is dropped
MembershipWitnessVerify_PairedWithSum(w, a, elem, pk) ==
    LET g2_x == PointMul(pk.g2, elem.x)
        lhs == Pairing(w, PointAdd(pk.alpha, g2_x))
        rhs == Pairing(a, pk.g2)
    IN  lhs = rhs

\* MembershipWitness::verify
MembershipWitnessVerify(w, a, elem, pk) ==
    LET pairing1 == Pairing(w, pk.alpha)
        pairing2 == Pairing(elem.value, pk.g2)
        lhs == GtAdd(pairing1, pairing2)
        rhs == Pairing(a, pk.g2)
    IN  lhs = rhs

\* Mutant of NonMembershipWitness::generate: g^v is added to the accumulator
\* value instead of its inverse
NonMembershipWitnessGenerate_NoNegation(a, alpha, elem, v) ==
    LET sum == FrAdd(elem.x, alpha)
        g_v == PointMul(G1Generator, v)
        temp == PointAdd(a, g_v)
        sum_inv == Inverse(sum)
    IN  IF ~sum_inv.some THEN None
        ELSE LET d == PointMul(temp, sum_inv.val)
                 d_pow_sum == PointMul(d, sum)
                 result == PointAdd(g_v, d_pow_sum)
             IN  [some |-> TRUE, val |-> [d |-> d, v |-> v],
                  selfcheck |-> (result = a)]

\* NonMembershipWitness::generate with the sampled v; None stands for the
\* panic of expect(), selfcheck for the asserted condition
NonMembershipWitnessGenerate(a, alpha, elem, v) ==
    LET sum == FrAdd(elem.x, alpha)
        g_v == PointMul(G1Generator, v)
        g_v_inv == PointNeg(g_v)
        temp == PointAdd(a, g_v_inv)
        sum_inv == Inverse(sum)
    IN  IF ~sum_inv.some THEN None
        ELSE LET d == PointMul(temp, sum_inv.val)
                 d_pow_sum == PointMul(d, sum)
                 result == PointAdd(g_v, d_pow_sum)
             IN  [some |-> TRUE, val |-> [d |-> d, v |-> v],
                  selfcheck |-> (result = a)]

\* Mutant of NonMembershipWitness::verify: d is paired with g2^alpha alone
NonMembershipWitnessVerify_NoElement(n, a, elem, pk) ==
    LET lhs == Pairing(a, pk.g2)
        g1_v == PointMul(G1Generator, n.v)
        pairing1 == Pairing(g1_v, pk.g2)
        pairing2 == Pairing(n.d, pk.alpha)
        rhs == GtAdd(pairing1, pairing2)
    IN  lhs = rhs

\* Mutant of NonMembershipWitness::verify: the pairing of g1^v is dropped
NonMembershipWitnessVerify_NoV(n, a, elem, pk) ==
    LET g2_y == PointMul(pk.g2, elem.x)
        alpha_plus_y == PointAdd(pk.alpha, g2_y)
        lhs == Pairing(a, pk.g2)
        rhs == Pairing(n.d, alpha_plus_y)
    IN  lhs = rhs

\* NonMembershipWitness::verify
NonMembershipWitnessVerify(n, a, elem, pk) ==
    LET g2_y == PointMul(pk.g2, elem.x)
        alpha_plus_y == PointAdd(pk.alpha, g2_y)
        lhs == Pairing(a, pk.g2)
        g1_v == PointMul(G1Generator, n.v)
        pairing1 == Pairing(g1_v, pk.g2)
        pairing2 == Pairing(n.d, alpha_plus_y)
        rhs == GtAdd(pairing1, pairing2)
    IN  lhs = rhs

(* ------------------------------ ZK proof ------------------------------ *)

\* Size of the digest space of the hash (2^256 for SHA-256).
HashMod == 251

\* serialize_uncompressed of the four points, concatenated: an injective
\* encoding of (A, X, T1, T2)
Serialize4(a, x, t1, t2) == a + P * x + P * P * t1 + P * P * P * t2

\* Sha256 of a message: a fixed function into the digest space
Sha256(m) == (m * m * m + 5 * m + 11) % HashMod

\* The Fiat-Shamir challenge: the digest reduced modulo the field order
\* (Fr::from_le_bytes_mod_order)
Challenge(a, elemValue, t1, t2) == Sha256(Serialize4(a, elemValue, t1, t2)) % P

\* Mutant of create_proof: the commitment is blinded with the witness
CreateProof_UsesWitness(w, a, elem, pk, r) ==
    LET t1 == PointAdd(PointMul(G1Generator, r), w)
        t2 == pk.g2
        challenge == Challenge(a, elem.value, t1, t2)
        response == FrAdd(r, FrMul(challenge, elem.x))
    IN  [commitment |-> [t1 |-> t1, t2 |-> t2], response |-> response]

\* Mutant of create_proof: the response leaves out the factor elem.x
CreateProof_NoX(w, a, elem, pk, r) ==
    LET t1 == PointMul(G1Generator, r)
        t2 == pk.g2
        challenge == Challenge(a, elem.value, t1, t2)
        response == FrAdd(r, challenge)
    IN  [commitment |-> [t1 |-> t1, t2 |-> t2], response |-> response]

\* MembershipWitness::create_proof with the sampled r (self is not read)
CreateProof(w, a, elem, pk, r) ==
    LET t1 == PointMul(G1Generator, r)
        t2 == pk.g2
        challenge == Challenge(a, elem.value, t1, t2)
        response == FrAdd(r, FrMul(challenge, elem.x))
    IN  [commitment |-> [t1 |-> t1, t2 |-> t2], response |-> response]

\* Mutant of MembershipProof::verify: the left-hand side is built from the
\* commitment and the challenge instead of the response
MembershipProofVerify_NoResponse(proof, a, elem, pk) ==
    LET challenge == Challenge(a, elem.value, proof.commitment.t1,
                               proof.commitment.t2)
        elem_challenge == PointMul(elem.value, challenge)
        response_point == PointAdd(proof.commitment.t1, elem_challenge)
        lhs == Pairing(response_point, pk.g2)
        pairing1 == Pairing(proof.commitment.t1, pk.g2)
        pairing2 == Pairing(elem_challenge, pk.g2)
        rhs == GtAdd(pairing1, pairing2)
    IN  lhs = rhs

\* MembershipProof::verify
MembershipProofVerify(proof, a, elem, pk) ==
    LET challenge == Challenge(a, elem.value, proof.commitment.t1,
                               proof.commitment.t2)
        response_point == PointMul(G1Generator, proof.response)
        lhs == Pairing(response_point, pk.g2)
        pairing1 == Pairing(proof.commitment.t1, pk.g2)
        elem_challenge == PointMul(elem.value, challenge)
        pairing2 == Pairing(elem_challenge, pk.g2)
        rhs == GtAdd(pairing1, pairing2)
    IN  lhs = rhs

(* ---------------------------- state machine --------------------------- *)

\* sk   : the secret scalar alpha (SecretKey::new)
\* acc  : Accumulator.value
\* hist : the scalars of the elements added so far, in order (history)
\* art  : the artifact issued last (a witness or a proof) with the inputs
\*        it was issued from; at is Len(hist) at the time of issue
\*        it was issued from; or the panic that ended the caller
\* pc   : "run", or "panicked" once an expect() or assert!() has aborted
\*        the caller
\* nif  : the AccumulatorResource shared by the callers of the binding: the
\*        owner of its Mutex (0 when free), whether an update of the value
\*        is under way, the call each caller is in, and what the call that
\*        returned last has read
NoArt == [kind |-> "none"]

Callers == 1 .. NumCallers

Idle == [pc |-> "idle"]

NoRet == [op |-> "none"]

NifInit ==
    [owner |-> 0, partial |-> FALSE, calls |-> [t \in Callers |-> Idle],
     ret |-> NoRet]

\* The panic of op on elem with the message msg
Panic(op, elem, msg) ==
    [kind |-> "panic", op |-> op, elem |-> elem, msg |-> msg]

Init ==
    /\ sk \in Fr
    /\ acc = AccumulatorNew
    /\ hist = <<>>
    /\ art = NoArt
    /\ pc = "run"
    /\ nif = NifInit

\* acc.add(&sk, &elem)
Add(x) ==
    /\ pc = "run"
    /\ Len(hist) < MaxAdds
    /\ acc' = AccumulatorAdd(acc, sk, Element(x))
    /\ hist' = Append(hist, x)
    /\ UNCHANGED <<sk, art, pc, nif>>

\* MembershipWitness::generate(&acc, &sk, &elem)
GenMembership(x) ==
    /\ pc = "run"
    /\ LET g == MembershipWitnessGenerate(acc, sk, Element(x))
       IN  IF g.some
           THEN /\ art' = [kind |-> "mw", value |-> g.val, elem |-> Element(x),
                           acc |-> acc, at |-> Len(hist)]
                /\ pc' = pc
           ELSE /\ art' = Panic("MembershipWitness::generate", Element(x),
                                "Failed to compute inverse")
                /\ pc' = "panicked"
    /\ UNCHANGED <<sk, acc, hist, nif>>

\* NonMembershipWitness::generate(&acc, &sk, &elem), v drawn by the RNG
GenNonMembership(x, v) ==
    /\ pc = "run"
    /\ LET g == NonMembershipWitnessGenerate(acc, sk, Element(x), v)
       IN  IF g.some /\ g.selfcheck
           THEN /\ art' = [kind |-> "nmw", value |-> g.val, elem |-> Element(x),
                           acc |-> acc, at |-> Len(hist)]
                /\ pc' = pc
           ELSE /\ art' = Panic("NonMembershipWitness::generate", Element(x),
                                IF g.some THEN "Invalid witness generated"
                                ELSE "Failed to compute inverse")
                /\ pc' = "panicked"
    /\ UNCHANGED <<sk, acc, hist, nif>>

\* witness.create_proof(&acc, &elem, &pk), r drawn by the RNG; the witness
\* and its element are those issued last, the accumulator is the current one
GenProof(r) ==
    /\ pc = "run"
    /\ art.kind = "mw"
    /\ art' = [kind |-> "proof",
               value |-> CreateProof(art.value, acc, art.elem, ToPublicKey(sk), r),
               elem |-> art.elem, acc |-> acc, at |-> Len(hist),
               w |-> art.value, r |-> r]
    /\ UNCHANGED <<sk, acc, hist, pc, nif>>

\* The accumulator and its witnesses (accumulator.rs, witness.rs)
Next ==
    \/ \E x \in Fr : Add(x)
    \/ \E x \in Fr : GenMembership(x)
    \/ \E x \in Fr, v \in Fr : GenNonMembership(x, v)

Spec == Init /\ [][Next]_vars

\* The accumulator, membership witnesses and their proofs (proof.rs)
NextProof ==
    \/ \E x \in Fr : Add(x)
    \/ \E x \in Fr : GenMembership(x)
    \/ \E r \in Fr : GenProof(r)

SpecProof == Init /\ [][NextProof]_vars

(* ------------------- the binding: a shared accumulator ---------------- *)

\* Mutant of the lock: the call goes on whoever owns the mutex
CanLock_Always(owner) == TRUE

\* resource.inner.lock(): the call goes on once the mutex is free
CanLock(owner) == owner = 0

\* acc.insert_assign(message): the new value, x being the scalar of message
InsertAssign(a, alpha, x) == AccumulatorAdd(a, alpha, Element(x))

\* add_element, export_accumulator or get_membership_proof is called and
\* takes the mutex
NifLock(t, op, x) ==
    /\ nif.calls[t].pc = "idle"
    /\ op = "add_element" => Len(hist) < MaxAdds
    /\ CanLock(nif.owner)
    /\ nif' = [nif EXCEPT !.owner = t,
                          !.calls[t] = [pc |-> "locked", op |-> op, x |-> x]]
    /\ UNCHANGED <<sk, acc, hist, art, pc>>

\* add_element: insert_assign reads the value and starts to rewrite it
NifAddBegin(t) ==
    /\ nif.calls[t].pc = "locked"
    /\ nif.calls[t].op = "add_element"
    /\ nif' = [nif EXCEPT !.partial = TRUE,
                          !.calls[t] = [pc |-> "updating", op |-> "add_element",
                                        x |-> nif.calls[t].x, read |-> acc]]
    /\ UNCHANGED <<sk, acc, hist, art, pc>>

\* add_element: insert_assign stores the new value; the call returns and its
\* guard releases the mutex
NifAddEnd(t) ==
    /\ nif.calls[t].pc = "updating"
    /\ acc' = InsertAssign(nif.calls[t].read, sk, nif.calls[t].x)
    /\ hist' = Append(hist, nif.calls[t].x)
    /\ nif' = [nif EXCEPT !.owner = 0, !.partial = FALSE, !.calls[t] = Idle,
                          !.ret = [op |-> "add_element"]]
    /\ UNCHANGED <<sk, art, pc>>

\* export_accumulator: acc.to_bytes() reads the value; the call returns and
\* its guard releases the mutex
NifExport(t) ==
    /\ nif.calls[t].pc = "locked"
    /\ nif.calls[t].op = "export_accumulator"
    /\ nif' = [nif EXCEPT !.owner = 0, !.calls[t] = Idle,
                          !.ret = [op |-> "export_accumulator", value |-> acc,
                                   partial |-> nif.partial]]
    /\ UNCHANGED <<sk, acc, hist, art, pc>>

\* get_membership_proof: MembershipWitness::new reads the value
NifProofWitness(t) ==
    /\ nif.calls[t].pc = "locked"
    /\ nif.calls[t].op = "get_membership_proof"
    /\ nif' = [nif EXCEPT !.calls[t] =
                   [pc |-> "proving", op |-> "get_membership_proof",
                    read |-> acc, partial |-> nif.partial]]
    /\ UNCHANGED <<sk, acc, hist, art, pc>>

\* get_membership_proof: MembershipProof::new reads the value again; the
\* call returns and its guard releases the mutex
NifProofEnd(t) ==
    /\ nif.calls[t].pc = "proving"
    /\ nif' = [nif EXCEPT !.owner = 0, !.calls[t] = Idle,
                          !.ret = [op |-> "get_membership_proof",
                                   first |-> nif.calls[t].read, second |-> acc,
                                   partial |-> nif.calls[t].partial
                                                 \/ nif.partial]]
    /\ UNCHANGED <<sk, acc, hist, art, pc>>

\* The callers of one accumulator handle (native/crypto_accumulator)
NextNif ==
    \/ \E t \in Callers, x \in Fr : NifLock(t, "add_element", x)
    \/ \E t \in Callers : NifLock(t, "export_accumulator", 0)
    \/ \E t \in Callers : NifLock(t, "get_membership_proof", 0)
    \/ \E t \in Callers : NifAddBegin(t)
    \/ \E t \in Callers : NifAddEnd(t)
    \/ \E t \in Callers : NifExport(t)
    \/ \E t \in Callers : NifProofWitness(t)
    \/ \E t \in Callers : NifProofEnd(t)

SpecNif == Init /\ [][NextNif]_vars

(* ------------------------- derived quantities ------------------------- *)

\* sk.to_public_key() of the key in use
pk == ToPublicKey(sk)

\* The scalars added by the first n add calls
AddedAt(n) == {hist[i] : i \in 1 .. n}

\* The artifact was issued after at least one add
IssuedAfterAdd == art.at >= 1

\* No artifact has been issued yet.  Add does not read art, so every
\* reachable (sk, acc, hist) occurs in such a state: a statement about what
\* an operation would return from (sk, acc, hist) is checked there.
NothingIssued == art.kind = "none"

(* -------------------------------- C1 ---------------------------------- *)

\* C1: membership soundness.  A membership witness generated against an
\* accumulator reached by one or more adds, for an element that was added
\* on the way, verifies true against that accumulator.
C1_MembershipSoundness ==
    (art.kind = "mw" /\ IssuedAfterAdd /\ art.elem.x \in AddedAt(art.at))
        => MembershipWitnessVerify(art.value, art.acc, art.elem, pk)

(* -------------------------------- C2 ---------------------------------- *)

\* C2 as stated: a membership witness generated, after one or more adds, for
\* an element that was never added verifies false.
C2_NonMemberRejected ==
    (art.kind = "mw" /\ IssuedAfterAdd /\ art.elem.x \notin AddedAt(art.at))
        => ~MembershipWitnessVerify(art.value, art.acc, art.elem, pk)

\* C2 amended: a membership witness generated for an element that was never
\* added verifies false, except when e.x = 0 or A = g1 * (e.x + alpha),
\* where it verifies true.
C2_NonMemberRejectedUnlessDegenerate ==
    (art.kind = "mw" /\ art.elem.x \notin AddedAt(art.at))
        => (MembershipWitnessVerify(art.value, art.acc, art.elem, pk)
              <=> (art.elem.x = 0
                     \/ art.acc = PointMul(G1Generator, FrAdd(art.elem.x, sk))))

C2_Witness ==
    /\ art.kind = "mw"
    /\ IssuedAfterAdd
    /\ art.elem.x \notin AddedAt(art.at)
    /\ art.elem.x # 0
    /\ ~MembershipWitnessVerify(art.value, art.acc, art.elem, pk)

(* -------------------------------- C3 ---------------------------------- *)

\* C3: non-membership soundness.  A non-membership witness generated for an
\* element that was not added verifies true against the accumulator it was
\* generated from, whatever v was sampled.
C3_NonMembershipSoundness ==
    (art.kind = "nmw" /\ art.elem.x \notin AddedAt(art.at))
        => NonMembershipWitnessVerify(art.value, art.acc, art.elem, pk)

C3_Witness ==
    /\ art.kind = "nmw"
    /\ IssuedAfterAdd
    /\ art.elem.x \notin AddedAt(art.at)
    /\ art.value.d # 0
    /\ NonMembershipWitnessVerify(art.value, art.acc, art.elem, pk)

(* -------------------------------- C4 ---------------------------------- *)

\* The element of the artifact was added by the one add made since issue
AddedRightAfterIssue ==
    /\ Len(hist) = art.at + 1
    /\ hist[Len(hist)] = art.elem.x

\* C4 as stated: once add(sk, e) has been applied, the non-membership
\* witness issued for e just before verifies false against the new value.
C4_Invalidation ==
    (art.kind = "nmw" /\ AddedRightAfterIssue)
        => ~NonMembershipWitnessVerify(art.value, acc, art.elem, pk)

\* C4 amended: after add(sk, e) the witness issued for e just before
\* verifies false, except when the add left the accumulator value unchanged
\* (e.X + A * alpha = A), where it still verifies true.
C4_InvalidationUnlessUnchanged ==
    (art.kind = "nmw" /\ AddedRightAfterIssue)
        => (NonMembershipWitnessVerify(art.value, acc, art.elem, pk)
              <=> acc = art.acc)

C4_Witness ==
    /\ art.kind = "nmw"
    /\ AddedRightAfterIssue
    /\ acc # art.acc
    /\ ~NonMembershipWitnessVerify(art.value, acc, art.elem, pk)

(* -------------------------------- C5 ---------------------------------- *)

\* The proof in art verifies against the inputs it was created from
ProofVerifies == MembershipProofVerify(art.value, art.acc, art.elem, pk)

\* C5: ZK proof soundness.  A proof created from a membership witness that
\* verifies true against (A, e, pk) verifies true against (A, e, pk),
\* whatever r was sampled.
C5_ProofSoundness ==
    (art.kind = "proof"
       /\ MembershipWitnessVerify(art.w, art.acc, art.elem, pk))
        => ProofVerifies

C5_Witness ==
    /\ art.kind = "proof"
    /\ IssuedAfterAdd
    /\ art.elem.x \in AddedAt(art.at)
    /\ art.elem.x # 0
    /\ MembershipWitnessVerify(art.w, art.acc, art.elem, pk)
    /\ ProofVerifies

(* -------------------------------- C6 ---------------------------------- *)

\* The nonzero amounts a value of Fr, G1 or G2 can be altered by
Delta == Fr \ {0}

\* C6: ZK proof binding.  For a proof that verifies true, altering exactly
\* one of A, e.X, e.x, T1, T2, s by a nonzero amount makes the
\* verification return false.
C6_ProofBinding ==
    (art.kind = "proof" /\ ProofVerifies) =>
        \A d \in Delta :
            /\ ~MembershipProofVerify(art.value, PointAdd(art.acc, d),
                                      art.elem, pk)
            /\ ~MembershipProofVerify(art.value, art.acc,
                   [art.elem EXCEPT !.value = PointAdd(@, d)], pk)
            /\ ~MembershipProofVerify(art.value, art.acc,
                   [art.elem EXCEPT !.x = FrAdd(@, d)], pk)
            /\ ~MembershipProofVerify(
                   [art.value EXCEPT !.commitment.t1 = PointAdd(@, d)],
                   art.acc, art.elem, pk)
            /\ ~MembershipProofVerify(
                   [art.value EXCEPT !.commitment.t2 = PointAdd(@, d)],
                   art.acc, art.elem, pk)
            /\ ~MembershipProofVerify(
                   [art.value EXCEPT !.response = FrAdd(@, d)],
                   art.acc, art.elem, pk)

(* -------------------------------- C7 ---------------------------------- *)

\* C7: a tampered response is rejected.  The proof (T1, T2, s + d) with
\* d # 0 verifies false against the (A, e, pk) the proof was created from.
C7_TamperedResponseRejected ==
    art.kind = "proof" =>
        \A d \in Delta :
            ~MembershipProofVerify([art.value EXCEPT !.response = FrAdd(@, d)],
                                   art.acc, art.elem, pk)

C7_Witness ==
    /\ art.kind = "proof"
    /\ IssuedAfterAdd
    /\ ProofVerifies
    /\ \A d \in Delta :
           ~MembershipProofVerify([art.value EXCEPT !.response = FrAdd(@, d)],
                                  art.acc, art.elem, pk)

(* -------------------------------- C8 ---------------------------------- *)

\* The accumulator value after adding the elements of xs, in order, to a0
RECURSIVE AccumulatorAfter(_, _, _)
AccumulatorAfter(a0, alpha, xs) ==
    IF xs = <<>> THEN a0
    ELSE AccumulatorAfter(AccumulatorAdd(a0, alpha, Element(Head(xs))),
                          alpha, Tail(xs))

\* The last two adds were of distinct elements
LastTwoDistinct ==
    /\ Len(hist) >= 2
    /\ hist[Len(hist) - 1] # hist[Len(hist)]

\* The value the accumulator would have had the last two adds been made in
\* the other order, from the same state
LastTwoSwapped ==
    LET n == Len(hist)
        before == AccumulatorAfter(AccumulatorNew, sk, SubSeq(hist, 1, n - 2))
    IN  AccumulatorAfter(before, sk, <<hist[n], hist[n - 1]>>)

\* C8 as stated: adding two distinct elements in the two orders yields
\* different accumulator values.
C8_OrderSensitivity == LastTwoDistinct => acc # LastTwoSwapped

\* C8 amended: adding two distinct elements in the two orders yields
\* different accumulator values provided alpha # 1; with alpha = 1 the two
\* orders yield the same value.
C8_OrderSensitivityUnlessAlphaOne ==
    LastTwoDistinct => (acc # LastTwoSwapped <=> sk # 1)

C8_Witness ==
    /\ LastTwoDistinct
    /\ sk \notin {0, 1}
    /\ acc # LastTwoSwapped

(* -------------------------------- C9 ---------------------------------- *)

\* The witness in art was generated for the only element added so far
AfterSingleAdd ==
    /\ art.at = 1
    /\ art.elem.x = hist[1]

\* C9: scenario S1.  After exactly one add of e to a fresh accumulator, the
\* membership witness generated for e verifies true.
C9_SingleAddMembership ==
    (art.kind = "mw" /\ AfterSingleAdd)
        => MembershipWitnessVerify(art.value, art.acc, art.elem, pk)

C9_Witness ==
    /\ art.kind = "mw"
    /\ AfterSingleAdd
    /\ sk # 0
    /\ art.elem.x # 0
    /\ MembershipWitnessVerify(art.value, art.acc, art.elem, pk)

(* -------------------------------- C10 --------------------------------- *)

\* C10 as stated: a non-membership witness generated for e verifies false
\* for every other element e', whatever v was sampled.
C10_BoundToElement ==
    art.kind = "nmw" =>
        \A y \in Fr \ {art.elem.x} :
            ~NonMembershipWitnessVerify(art.value, art.acc, Element(y), pk)

\* C10 amended: a non-membership witness generated for e verifies false for
\* every other element e', except when its d is the identity of G1 (the
\* sampled v satisfies g1 * v = A), where it verifies true for every element.
C10_BoundToElementUnlessIdentity ==
    art.kind = "nmw" =>
        \A y \in Fr \ {art.elem.x} :
            NonMembershipWitnessVerify(art.value, art.acc, Element(y), pk)
                <=> art.value.d = 0

C10_Witness ==
    /\ art.kind = "nmw"
    /\ IssuedAfterAdd
    /\ art.value.d # 0
    /\ \E y \in AddedAt(art.at) :
           /\ y # art.elem.x
           /\ ~NonMembershipWitnessVerify(art.value, art.acc, Element(y), pk)

(* -------------------------------- C11 --------------------------------- *)

\* The operations that can end in a panic
GenerateOps == {"MembershipWitness::generate", "NonMembershipWitness::generate"}

\* C11: a zero sum is the only fatal condition.  The two generate
\* operations end in a panic if and only if e.x + alpha = 0 and return a
\* witness for every other input; no other operation ends in a panic.
C11_OnlySingularInputFails ==
    /\ pc = "panicked" <=> art.kind = "panic"
    /\ art.kind = "panic"
         => (art.op \in GenerateOps /\ FrAdd(art.elem.x, sk) = 0)
    /\ art.kind \in {"mw", "nmw"} => FrAdd(art.elem.x, sk) # 0
    /\ NothingIssued => \A x \in Fr :
         /\ MembershipWitnessGenerate(acc, sk, Element(x)).some
              <=> FrAdd(x, sk) # 0
         /\ \A v \in Fr :
              LET g == NonMembershipWitnessGenerate(acc, sk, Element(x), v)
              IN  (g.some /\ g.selfcheck) <=> FrAdd(x, sk) # 0

C11_Witness ==
    /\ pc = "panicked"
    /\ art.kind = "panic"
    /\ Len(hist) >= 1
    /\ FrAdd(art.elem.x, sk) = 0

(* -------------------------------- C12 --------------------------------- *)

\* The accumulator value after the first n adds
AccumulatorAt(n) == AccumulatorAfter(AccumulatorNew, sk, SubSeq(hist, 1, n))

\* The last two adds were of the same element
LastTwoSame ==
    /\ Len(hist) >= 2
    /\ hist[Len(hist) - 1] = hist[Len(hist)]

\* C12 as stated: adding the same element a second time right after the
\* first yields a value different from the value after the first add.
C12_NoDeduplication ==
    LastTwoSame => acc # AccumulatorAt(Len(hist) - 1)

\* C12 amended: adding the same element a second time right after the
\* first yields a different value, except when alpha = 0 or the first add
\* left the value unchanged (e.X + A * alpha = A), where the second add
\* leaves it unchanged too.
C12_NoDeduplicationUnlessFixed ==
    LastTwoSame =>
        (acc # AccumulatorAt(Len(hist) - 1)
           <=> (sk # 0 /\ AccumulatorAt(Len(hist) - 1)
                            # AccumulatorAt(Len(hist) - 2)))

C12_Witness ==
    /\ LastTwoSame
    /\ sk # 0
    /\ acc # AccumulatorAt(Len(hist) - 1)

(* -------------------------------- C14 --------------------------------- *)

\* At least one add was made since the artifact was issued, and none of
\* them added the element of the artifact
OnlyOthersAddedSinceIssue ==
    /\ Len(hist) > art.at
    /\ \A i \in (art.at + 1) .. Len(hist) : hist[i] # art.elem.x

\* C14 as stated: a non-membership witness issued for e still verifies
\* true against every later accumulator state reached by adding only
\* elements other than e.
C14_StaleWitnessStillVerifies ==
    (art.kind = "nmw" /\ OnlyOthersAddedSinceIssue)
        => NonMembershipWitnessVerify(art.value, acc, art.elem, pk)

\* C14 amended: against a later accumulator state reached by adding only
\* elements other than e, a non-membership witness issued for e verifies
\* true if and only if the accumulator value is the one it was issued
\* against (A' = A); against any other value it verifies false.
C14_StaleWitnessVerifiesIffSameValue ==
    (art.kind = "nmw" /\ OnlyOthersAddedSinceIssue)
        => (NonMembershipWitnessVerify(art.value, acc, art.elem, pk)
              <=> acc = art.acc)

C14_Witness ==
    /\ art.kind = "nmw"
    /\ OnlyOthersAddedSinceIssue
    /\ art.elem.x \notin AddedAt(Len(hist))
    /\ acc # art.acc
    /\ ~NonMembershipWitnessVerify(art.value, acc, art.elem, pk)

(* -------------------------------- C15 --------------------------------- *)

RECURSIVE FrPow(_, _)
FrPow(a, n) == IF n = 0 THEN 1 ELSE FrMul(a, FrPow(a, n - 1))

RECURSIVE PolySum(_, _, _)
\* x1 * alpha^(n-1) + ... + xn for xs = <<x1, ..., xn>>, from index i on
PolySum(alpha, xs, i) ==
    IF i > Len(xs) THEN 0
    ELSE FrAdd(FrMul(xs[i], FrPow(alpha, Len(xs) - i)),
               PolySum(alpha, xs, i + 1))

\* alpha^n + x1 * alpha^(n-1) + ... + x(n-1) * alpha + xn
ClosedForm(alpha, xs) == FrAdd(FrPow(alpha, Len(xs)), PolySum(alpha, xs, 1))

\* C15: the accumulator value.  A fresh accumulator is g1, every add
\* replaces A by e.X + A * alpha and changes nothing else, and after adding
\* x1, ..., xn the value is g1 * (alpha^n + x1 * alpha^(n-1) + ... + xn).
C15_AccumulatorValue ==
    /\ [](acc = PointMul(G1Generator, ClosedForm(sk, hist)))
    /\ [](hist = <<>> => acc = G1Generator)
    /\ [][hist' # hist =>
            /\ \E x \in Fr :
                 /\ hist' = Append(hist, x)
                 /\ acc' = PointAdd(PointMul(G1Generator, x),
                                    PointMul(acc, sk))
            /\ UNCHANGED <<sk, art, pc, nif>>]_vars

C15_Witness ==
    /\ Len(hist) = 2
    /\ sk \notin {0, 1}
    /\ hist[1] # 0
    /\ acc = PointAdd(PointMul(G1Generator, hist[2]),
                      PointAdd(PointMul(PointMul(G1Generator, hist[1]), sk),
                               PointMul(G1Generator, FrMul(sk, sk))))

(* -------------------------------- C16 --------------------------------- *)

\* C16: the self-check of NonMembershipWitness::generate never fires.  For
\* every accumulator value A, every element with e.x + alpha # 0 and every
\* sampled v, g1 * v + d * (e.x + alpha) = A, so no caller is ever aborted
\* with 'Invalid witness generated'.
C16_SelfCheckNeverFires ==
    /\ art.kind = "panic" => art.msg # "Invalid witness generated"
    /\ NothingIssued => \A a \in Fr, x \in Fr, v \in Fr :
         LET g == NonMembershipWitnessGenerate(a, sk, Element(x), v)
         IN  g.some =>
               /\ g.selfcheck
               /\ PointAdd(PointMul(G1Generator, g.val.v),
                           PointMul(g.val.d, FrAdd(x, sk))) = a

C16_Witness ==
    /\ art.kind = "nmw"
    /\ IssuedAfterAdd
    /\ art.value.v # 0
    /\ PointAdd(PointMul(G1Generator, art.value.v),
                PointMul(art.value.d, FrAdd(art.elem.x, sk))) = acc

(* -------------------------------- C17 --------------------------------- *)

\* C17: non-membership issuance does not depend on membership.  For an
\* element that has been added (with e.x + alpha # 0) generate returns a
\* witness, and the witness verifies true against the accumulator it was
\* generated from.
C17_IssuedForMembers ==
    /\ (art.kind = "nmw" /\ art.elem.x \in AddedAt(art.at))
         => NonMembershipWitnessVerify(art.value, art.acc, art.elem, pk)
    /\ NothingIssued => \A x \in AddedAt(Len(hist)), v \in Fr :
         LET g == NonMembershipWitnessGenerate(acc, sk, Element(x), v)
         IN  FrAdd(x, sk) # 0 =>
               /\ g.some
               /\ g.selfcheck
               /\ NonMembershipWitnessVerify(g.val, acc, Element(x), pk)

C17_Witness ==
    /\ art.kind = "nmw"
    /\ art.elem.x \in AddedAt(art.at)
    /\ art.elem.x # 0
    /\ art.value.d # 0
    /\ NonMembershipWitnessVerify(art.value, art.acc, art.elem, pk)

(* -------------------------------- C18 --------------------------------- *)

\* C18: the proof depends neither on the witness nor on membership.
\* create_proof returns, for any witness value, any accumulator and any
\* consistent element, a proof that verifies true; the proof and the result
\* of its verification are the same for every witness value and every
\* pk.alpha.
C18_ProofIgnoresWitness ==
    art.kind = "proof" =>
        /\ ProofVerifies
        /\ \A w \in Fr, alpha \in Fr :
             LET pk2 == [pk EXCEPT !.alpha = PointMul(G2Generator, alpha)]
             IN  /\ CreateProof(w, art.acc, art.elem, pk2, art.r) = art.value
                 /\ MembershipProofVerify(art.value, art.acc, art.elem, pk2)
                      = ProofVerifies

C18_Witness ==
    /\ art.kind = "proof"
    /\ IssuedAfterAdd
    /\ art.elem.x \notin AddedAt(art.at)
    /\ ~MembershipWitnessVerify(art.w, art.acc, art.elem, pk)
    /\ ProofVerifies

(* -------------------------------- C13 --------------------------------- *)

\* The callers that are inside a call
InCall == {t \in Callers : nif.calls[t].pc # "idle"}

\* C13: exclusive update of a shared accumulator.  Every call holds the
\* mutex from its first read to its return, so no two calls overlap; no add
\* is lost: the value is the result of applying the add_element calls that
\* have returned, one after another; export_accumulator and
\* get_membership_proof never read a value that is being rewritten, and
\* get_membership_proof reads the same value for the witness and the proof.
C13_ExclusiveUpdate ==
    /\ Cardinality(InCall) <= 1
    /\ InCall = IF nif.owner = 0 THEN {} ELSE {nif.owner}
    /\ nif.partial => \E t \in InCall : nif.calls[t].pc = "updating"
    /\ \A t \in InCall : nif.calls[t].pc = "updating" => nif.calls[t].read = acc
    /\ acc = AccumulatorAfter(AccumulatorNew, sk, hist)
    /\ nif.ret.op = "export_accumulator"
         => /\ ~nif.ret.partial
            /\ \E n \in 0 .. Len(hist) : nif.ret.value = AccumulatorAt(n)
    /\ nif.ret.op = "get_membership_proof"
         => /\ ~nif.ret.partial
            /\ nif.ret.first = nif.ret.second

C13_Witness ==
    /\ Len(hist) = 2
    /\ hist[1] # hist[2]
    /\ sk \notin {0, 1}
    /\ nif.ret.op = "export_accumulator"
    /\ nif.ret.value = acc
    /\ nif.owner # 0
    /\ nif.calls[nif.owner].pc = "proving"

====
